---------------------------- MODULE Spec2Model ----------------------------
(***************************************************************************)
(* State-machine model of projects/Schwab_API_Diagonal_Spread_Scanner.py.  *)
(*                                                                         *)
(* The script is a straight-line program: it reads the clock five times to *)
(* build four date strings, fetches the ticker list, loops over the        *)
(* tickers making two option-chain requests per ticker, extracts one       *)
(* "last" price from each response, appends a row when both prices are     *)
(* truthy, and finally sorts the rows and writes them to a CSV file.       *)
(*                                                                         *)
(* Three specifications share the variables:                               *)
(*   Spec        the whole run from fetch_all_tickers() to to_csv()        *)
(*   SpecExtract the two price-extraction loops on arbitrary chains        *)
(*   SpecDates   the five reads of datetime.today() (lines 30-38)          *)
(*                                                                         *)
(* Encoding.  A Python dict whose keys are only iterated is a sequence of  *)
(* its values in insertion order.  An option record is a TLA+ record that  *)
(* may or may not have the field "last".  None is <<>> and a number v held *)
(* in an optional variable is <<v>>.  A ticker string is the sequence of   *)
(* its character codes.  A float ratio is an exact rational in lowest      *)
(* terms.  A date string 'YYYY-MM-DD' is the triple <<Y, M, D>>, ordered   *)
(* lexicographically like the zero-padded string.                          *)
(***************************************************************************)
EXTENDS Integers, Sequences, FiniteSets

VARIABLES
    pc,                 \* position of the script
    tickers,            \* list returned by fetch_all_tickers()
    i,                  \* 1-based position of the for loop in tickers
    ticker,             \* loop variable after .upper()
    response_data,      \* callExpDateMap of the last parsed 200 response
    week_last_price,    \* None or <<price>>
    year_last_price,    \* None or <<price>>
    results_df,         \* accumulated rows
    sorted_results_df,  \* rows after sort_values
    csv_file,           \* rows written by to_csv(index=False), or None
    events,             \* history: requests issued, lines printed, rows appended
    clock,              \* current day, as days since the epoch date
    midnights,          \* history: midnights passed since the script started
    today_date,
    one_week_date,
    one_week_date2,
    one_year_date,
    one_year_date2

vars == <<pc, tickers, i, ticker, response_data, week_last_price,
          year_last_price, results_df, sorted_results_df, csv_file, events,
          clock, midnights, today_date, one_week_date, one_week_date2,
          one_year_date, one_year_date2>>

scanVars == <<tickers, i, ticker, response_data, week_last_price,
              year_last_price, results_df, sorted_results_df, csv_file, events>>

dateVars == <<clock, midnights, today_date, one_week_date, one_week_date2,
              one_year_date, one_year_date2>>

None == <<>>

Some(v) == <<v>>

(***************************************************************************)
(* Bounds of the model.                                                    *)
(***************************************************************************)
MaxTickers == 2

MaxExpDates == 2

MaxStrikes == 2

MaxOptions == 2

MaxStartDay == 730

MaxMidnights == 1

(***************************************************************************)
(* Program constants: the timedelta offsets of lines 33, 34, 37, 38 and    *)
(* the HTTP success code tested on lines 49, 82 and 102.                   *)
(***************************************************************************)
WeekStartDays == 6

WeekEndDays == 11

YearStartDays == 330

YearEndDays == 600

HttpOk == 200

(***************************************************************************)
(* Generic helpers.                                                        *)
(***************************************************************************)
SeqsUpTo(S, n) == UNION {[1..k -> S] : k \in 0..n}

Abs(n) == IF n < 0 THEN -n ELSE n

RECURSIVE Gcd(_, _)
Gcd(a, b) == IF b = 0 THEN a ELSE Gcd(b, a % b)

\* Python true division year / week on numbers, as an exact rational.
Divide(num, den) ==
    LET g == Gcd(Abs(num), Abs(den))
        s == IF den < 0 THEN -1 ELSE 1
    IN  [n |-> (s * num) \div g, d |-> (s * den) \div g]

RatLeq(a, b) == a.n * b.d <= b.n * a.d

(***************************************************************************)
(* Tickers.  pandas.read_csv yields str entries and, for cells it reads as *)
(* missing, float NaN entries.                                             *)
(***************************************************************************)
StrEntry(chars) == [isStr |-> TRUE, chars |-> chars]

NaNEntry == [isStr |-> FALSE, chars |-> <<>>]

\* "a", "B" and NaN
TickerEntries == {StrEntry(<<97>>), StrEntry(<<66>>), NaNEntry}

TickerLists == SeqsUpTo(TickerEntries, MaxTickers)

IsString_NoCheck(entry) == TRUE

\* line 71: isinstance(ticker, str)
IsString(entry) == entry.isStr

UpperChar(c) == IF c >= 97 /\ c <= 122 THEN c - 32 ELSE c

\* line 74: ticker.upper()
Upper(chars) == [k \in 1..Len(chars) |-> UpperChar(chars[k])]

(***************************************************************************)
(* Option chains and responses.                                            *)
(***************************************************************************)
NoLastOption == [putCall |-> "CALL"]

Option(v) == [putCall |-> "CALL", last |-> v]

ScanPrices == {-1, 0, 1, 2}

\* Chains the provider returns in Spec: one expiration with one strike (the
\* requests ask for strikeCount=1) holding one record, without "last" or with
\* a "last" of ScanPrices.
ScanChains ==
    {<< << <<NoLastOption>> >> >>} \cup {<< << <<Option(v)>> >> >> : v \in ScanPrices}

ExtractPrices == {1, 2}

Options == {NoLastOption} \cup {Option(v) : v \in ExtractPrices}

OptionLists == SeqsUpTo(Options, MaxOptions)

StrikeMaps == SeqsUpTo(OptionLists, MaxStrikes)

\* Chains of SpecExtract: up to MaxExpDates expirations of up to MaxStrikes
\* strikes of up to MaxOptions records.
Chains == SeqsUpTo(StrikeMaps, MaxExpDates)

\* Outcomes of requests.get(...) followed by response.json():
\*   raise      requests.get raised (no connection, timeout, ...)
\*   http       a response arrived; wellformed says whether its body parses to
\*              a dict whose callExpDateMap is a dict of dicts of lists of dicts
RaiseOutcome ==
    [kind |-> "raise", status_code |-> 0, wellformed |-> FALSE, callExpDateMap |-> <<>>]

HttpOutcome(code, ok, chain) ==
    [kind |-> "http", status_code |-> code, wellformed |-> ok, callExpDateMap |-> chain]

Outcomes ==
    {RaiseOutcome, HttpOutcome(404, TRUE, <<>>), HttpOutcome(HttpOk, FALSE, <<>>)}
        \cup {HttpOutcome(HttpOk, TRUE, c) : c \in ScanChains}

StatusOk_Always(resp) == TRUE

\* lines 82, 102: response.status_code == 200
StatusOk(resp) == resp.status_code = HttpOk

(***************************************************************************)
(* Price extraction, lines 89-98 and 109-118.                              *)
(***************************************************************************)
\* lines 93-96: the first record with "last" sets the price and ends the
\* loop over this strike's records only.
RECURSIVE ScanOptions(_, _)
ScanOptions(price, options_list) ==
    IF options_list = <<>> THEN price
    ELSE IF "last" \in DOMAIN Head(options_list)
         THEN Some(Head(options_list).last)
         ELSE ScanOptions(price, Tail(options_list))

\* line 92: every strike of the expiration is visited; nothing ends this loop.
RECURSIVE ScanStrikes(_, _)
ScanStrikes(price, strikes) ==
    IF strikes = <<>> THEN price
    ELSE ScanStrikes(ScanOptions(price, Head(strikes)), Tail(strikes))

\* lines 91, 97-98: after each expiration the loop ends if a price is set.
RECURSIVE ScanExpDates(_, _)
ScanExpDates(price, call_exp_date_map) ==
    IF call_exp_date_map = <<>> THEN price
    ELSE LET p == ScanStrikes(price, Head(call_exp_date_map))
         IN  IF p # None THEN p ELSE ScanExpDates(p, Tail(call_exp_date_map))

InitialPrice_Keep(previous) == previous

\* lines 89, 109: the price variable is reset before the loops.
InitialPrice(previous) == None

LastPrice(previous, call_exp_date_map) ==
    ScanExpDates(InitialPrice(previous), call_exp_date_map)

\* line 121: truthiness of an optional number
Truthy(price) == price # None /\ price[1] # 0

(***************************************************************************)
(* History events.                                                         *)
(***************************************************************************)
RequestEvent(n, which, t, resp) ==
    [type |-> "request", iter |-> n, which |-> which, ticker |-> t, outcome |-> resp]

PrintEvent(n, text, t) ==
    [type |-> "print", iter |-> n, text |-> text, ticker |-> t]

AppendEvent(n, row) ==
    [type |-> "append", iter |-> n, row |-> row]

(***************************************************************************)
(* Rows and sorting.                                                       *)
(***************************************************************************)
\* lines 122-129; Index is the label pd.concat(ignore_index=True) gives the row.
Row(index, t, week, year) ==
    [Index |-> index, Ticker |-> t, Week_Last_Price |-> week,
     Year_Last_Price |-> year, Spread_Ratio |-> Divide(year, week)]

Orderings(n) == {f \in [1..n -> 1..n] : \A a, b \in 1..n : f[a] = f[b] => a = b}

Reorder(df, f) == [k \in 1..Len(df) |-> df[f[k]]]

Descending(df) ==
    \A k \in 1..(Len(df) - 1) : RatLeq(df[k + 1].Spread_Ratio, df[k].Spread_Ratio)

\* line 136: ascending=True
Ascending(df) ==
    \A k \in 1..(Len(df) - 1) : RatLeq(df[k].Spread_Ratio, df[k + 1].Spread_Ratio)

\* line 136: sort_values(by='Spread_Ratio', ascending=True) with the default
\* kind='quicksort', which pandas documents as not stable: every ordered
\* rearrangement of the rows is a possible result.
SortValues(df) == {s \in {Reorder(df, f) : f \in Orderings(Len(df))} : Ascending(s)}

\* line 141: to_csv(index=False) writes the columns without the index.
CsvRow(row) ==
    [Ticker |-> row.Ticker, Week_Last_Price |-> row.Week_Last_Price,
     Year_Last_Price |-> row.Year_Last_Price, Spread_Ratio |-> row.Spread_Ratio]

ToCsv(df) == [k \in 1..Len(df) |-> CsvRow(df[k])]

(***************************************************************************)
(* The run, lines 57-143.                                                  *)
(***************************************************************************)
\* lines 41-57: fetch_all_tickers().  A 200 response yields the list, any
\* other status yields [], and an exception of requests.get ends the script.
FetchAllTickers ==
    /\ pc = "start"
    /\ \/ \E list \in TickerLists : tickers' = list /\ pc' = "for"
       \/ tickers' = <<>> /\ pc' = "for"
       \/ tickers' = <<>> /\ pc' = "no_tickers"
    /\ UNCHANGED <<i, ticker, response_data, week_last_price, year_last_price,
                   results_df, sorted_results_df, csv_file, events>>
    /\ UNCHANGED dateVars

\* lines 69-72: an entry that is not a str is passed over.
SkipNonString ==
    /\ pc = "for"
    /\ i <= Len(tickers)
    /\ ~IsString(tickers[i])
    /\ i' = i + 1
    /\ ticker' = tickers[i].chars
    /\ UNCHANGED <<pc, tickers, response_data, week_last_price, year_last_price,
                   results_df, sorted_results_df, csv_file, events>>
    /\ UNCHANGED dateVars

\* lines 74-98: upper(), the short-term request and the extraction of
\* week_last_price.
ShortTermRequest ==
    /\ pc = "for"
    /\ i <= Len(tickers)
    /\ IsString(tickers[i])
    /\ ticker' = Upper(tickers[i].chars)
    /\ \E resp \in Outcomes :
         \/ /\ resp.kind = "raise"
            /\ events' = Append(events, RequestEvent(i, "short", ticker', resp))
            /\ pc' = "crashed"
            /\ UNCHANGED <<i, response_data, week_last_price>>
         \/ /\ resp.kind = "http"
            /\ ~StatusOk(resp)
            /\ events' = events \o <<RequestEvent(i, "short", ticker', resp),
                                     PrintEvent(i, "Short-term request failed", ticker')>>
            /\ i' = i + 1
            /\ UNCHANGED <<pc, response_data, week_last_price>>
         \/ /\ resp.kind = "http"
            /\ StatusOk(resp)
            /\ ~resp.wellformed
            /\ events' = Append(events, RequestEvent(i, "short", ticker', resp))
            /\ pc' = "crashed"
            /\ UNCHANGED <<i, response_data, week_last_price>>
         \/ /\ resp.kind = "http"
            /\ StatusOk(resp)
            /\ resp.wellformed
            /\ events' = Append(events, RequestEvent(i, "short", ticker', resp))
            /\ response_data' = resp.callExpDateMap
            /\ week_last_price' = LastPrice(week_last_price, resp.callExpDateMap)
            /\ pc' = "long"
            /\ UNCHANGED i
    /\ UNCHANGED <<tickers, year_last_price, results_df, sorted_results_df, csv_file>>
    /\ UNCHANGED dateVars

\* lines 100-118: the long-term request and the extraction of year_last_price.
LongTermRequest ==
    /\ pc = "long"
    /\ \E resp \in Outcomes :
         \/ /\ resp.kind = "raise"
            /\ events' = Append(events, RequestEvent(i, "long", ticker, resp))
            /\ pc' = "crashed"
            /\ UNCHANGED <<i, response_data, year_last_price>>
         \/ /\ resp.kind = "http"
            /\ ~StatusOk(resp)
            /\ events' = events \o <<RequestEvent(i, "long", ticker, resp),
                                     PrintEvent(i, "Long-term request failed", ticker)>>
            /\ i' = i + 1
            /\ pc' = "for"
            /\ UNCHANGED <<response_data, year_last_price>>
         \/ /\ resp.kind = "http"
            /\ StatusOk(resp)
            /\ ~resp.wellformed
            /\ events' = Append(events, RequestEvent(i, "long", ticker, resp))
            /\ pc' = "crashed"
            /\ UNCHANGED <<i, response_data, year_last_price>>
         \/ /\ resp.kind = "http"
            /\ StatusOk(resp)
            /\ resp.wellformed
            /\ events' = Append(events, RequestEvent(i, "long", ticker, resp))
            /\ response_data' = resp.callExpDateMap
            /\ year_last_price' = LastPrice(year_last_price, resp.callExpDateMap)
            /\ pc' = "ratio"
            /\ UNCHANGED i
    /\ UNCHANGED <<tickers, ticker, week_last_price, results_df, sorted_results_df,
                   csv_file>>
    /\ UNCHANGED dateVars

\* lines 120-133: the row is appended when both prices are truthy, otherwise
\* the missing data is printed.
CalculateSpreadRatio ==
    /\ pc = "ratio"
    /\ \/ /\ Truthy(week_last_price) /\ Truthy(year_last_price)
          /\ LET row == Row(Len(results_df), ticker, week_last_price[1],
                            year_last_price[1])
             IN  /\ results_df' = Append(results_df, row)
                 /\ events' = Append(events, AppendEvent(i, row))
       \/ /\ ~(Truthy(week_last_price) /\ Truthy(year_last_price))
          /\ events' = Append(events,
                 PrintEvent(i, "Could not calculate spread ratio", ticker))
          /\ UNCHANGED results_df
    /\ i' = i + 1
    /\ pc' = "for"
    /\ UNCHANGED <<tickers, ticker, response_data, week_last_price, year_last_price,
                   sorted_results_df, csv_file>>
    /\ UNCHANGED dateVars

\* lines 135-138: the loop is over; the rows are sorted and printed.
SortResults ==
    /\ pc = "for"
    /\ i > Len(tickers)
    /\ sorted_results_df' \in SortValues(results_df)
    /\ pc' = "sorted"
    /\ UNCHANGED <<tickers, i, ticker, response_data, week_last_price,
                   year_last_price, results_df, csv_file, events>>
    /\ UNCHANGED dateVars

\* lines 140-143: the sorted rows are written to the CSV file.
SaveCsv ==
    /\ pc = "sorted"
    /\ csv_file' = ToCsv(sorted_results_df)
    /\ pc' = "done"
    /\ UNCHANGED <<tickers, i, ticker, response_data, week_last_price,
                   year_last_price, results_df, sorted_results_df, events>>
    /\ UNCHANGED dateVars

\* The state on reaching line 57, the dates already computed.
Init ==
    /\ pc = "start"
    /\ tickers = <<>>
    /\ i = 1
    /\ ticker = None
    /\ response_data = <<>>
    /\ week_last_price = None
    /\ year_last_price = None
    /\ results_df = <<>>
    /\ sorted_results_df = <<>>
    /\ csv_file = None
    /\ events = <<>>
    /\ clock = 0
    /\ midnights = 0
    /\ today_date = None
    /\ one_week_date = None
    /\ one_week_date2 = None
    /\ one_year_date = None
    /\ one_year_date2 = None

Next ==
    \/ FetchAllTickers
    \/ SkipNonString
    \/ ShortTermRequest
    \/ LongTermRequest
    \/ CalculateSpreadRatio
    \/ SortResults
    \/ SaveCsv

Spec == Init /\ [][Next]_vars

(***************************************************************************)
(* The extraction loops alone, on every chain within the bounds.           *)
(***************************************************************************)
InitExtract ==
    /\ pc \in {"week_extract", "year_extract"}
    /\ response_data \in Chains
    /\ week_last_price \in {None, Some(1)}
    /\ year_last_price = week_last_price
    /\ tickers = <<>>
    /\ i = 1
    /\ ticker = None
    /\ results_df = <<>>
    /\ sorted_results_df = <<>>
    /\ csv_file = None
    /\ events = <<>>
    /\ clock = 0
    /\ midnights = 0
    /\ today_date = None
    /\ one_week_date = None
    /\ one_week_date2 = None
    /\ one_year_date = None
    /\ one_year_date2 = None

\* lines 88-98
ExtractWeekLastPrice ==
    /\ pc = "week_extract"
    /\ week_last_price' = LastPrice(week_last_price, response_data)
    /\ pc' = "week_extracted"
    /\ UNCHANGED <<tickers, i, ticker, response_data, year_last_price, results_df,
                   sorted_results_df, csv_file, events>>
    /\ UNCHANGED dateVars

\* lines 108-118
ExtractYearLastPrice ==
    /\ pc = "year_extract"
    /\ year_last_price' = LastPrice(year_last_price, response_data)
    /\ pc' = "year_extracted"
    /\ UNCHANGED <<tickers, i, ticker, response_data, week_last_price, results_df,
                   sorted_results_df, csv_file, events>>
    /\ UNCHANGED dateVars

NextExtract == ExtractWeekLastPrice \/ ExtractYearLastPrice

SpecExtract == InitExtract /\ [][NextExtract]_vars

(***************************************************************************)
(* The date strings, lines 29-38.  Each statement calls datetime.today()   *)
(* anew, and midnight may pass between two statements.                     *)
(***************************************************************************)
IsLeap(y) == (y % 4 = 0 /\ y % 100 # 0) \/ y % 400 = 0

DaysInMonth(y, m) ==
    IF m = 2 THEN (IF IsLeap(y) THEN 29 ELSE 28)
    ELSE IF m \in {4, 6, 9, 11} THEN 30 ELSE 31

RECURSIVE DateFrom(_, _, _)
DateFrom(y, m, n) ==
    IF n < DaysInMonth(y, m) THEN <<y, m, n + 1>>
    ELSE IF m = 12 THEN DateFrom(y + 1, 1, n - DaysInMonth(y, m))
         ELSE DateFrom(y, m + 1, n - DaysInMonth(y, m))

\* strftime('%Y-%m-%d') of the day n days after the epoch date 2024-01-01
Strftime(n) == DateFrom(2024, 1, n)

\* (datetime.today() + timedelta(days=d)).strftime('%Y-%m-%d')
DateAfter(now, d) == Strftime(now + d)

InitDates ==
    /\ pc = "today"
    /\ clock \in 0..MaxStartDay
    /\ midnights = 0
    /\ today_date = None
    /\ one_week_date = None
    /\ one_week_date2 = None
    /\ one_year_date = None
    /\ one_year_date2 = None
    /\ tickers = <<>>
    /\ i = 1
    /\ ticker = None
    /\ response_data = <<>>
    /\ week_last_price = None
    /\ year_last_price = None
    /\ results_df = <<>>
    /\ sorted_results_df = <<>>
    /\ csv_file = None
    /\ events = <<>>

\* line 30
ReadTodayDate ==
    /\ pc = "today"
    /\ today_date' = DateAfter(clock, 0)
    /\ pc' = "week"
    /\ UNCHANGED <<clock, midnights, one_week_date, one_week_date2, one_year_date,
                   one_year_date2>>
    /\ UNCHANGED scanVars

\* line 33
ComputeOneWeekDate ==
    /\ pc = "week"
    /\ one_week_date' = DateAfter(clock, WeekStartDays)
    /\ pc' = "week2"
    /\ UNCHANGED <<clock, midnights, today_date, one_week_date2, one_year_date,
                   one_year_date2>>
    /\ UNCHANGED scanVars

\* line 34
ComputeOneWeekDate2 ==
    /\ pc = "week2"
    /\ one_week_date2' = DateAfter(clock, WeekEndDays)
    /\ pc' = "year"
    /\ UNCHANGED <<clock, midnights, today_date, one_week_date, one_year_date,
                   one_year_date2>>
    /\ UNCHANGED scanVars

\* line 37
ComputeOneYearDate ==
    /\ pc = "year"
    /\ one_year_date' = DateAfter(clock, YearStartDays)
    /\ pc' = "year2"
    /\ UNCHANGED <<clock, midnights, today_date, one_week_date, one_week_date2,
                   one_year_date2>>
    /\ UNCHANGED scanVars

\* line 38
ComputeOneYearDate2 ==
    /\ pc = "year2"
    /\ one_year_date2' = DateAfter(clock, YearEndDays)
    /\ pc' = "dates_done"
    /\ UNCHANGED <<clock, midnights, today_date, one_week_date, one_week_date2,
                   one_year_date>>
    /\ UNCHANGED scanVars

\* The wall clock passes midnight between two statements.
MidnightPasses ==
    /\ pc \in {"week", "week2", "year", "year2"}
    /\ midnights < MaxMidnights
    /\ clock' = clock + 1
    /\ midnights' = midnights + 1
    /\ UNCHANGED <<pc, today_date, one_week_date, one_week_date2, one_year_date,
                   one_year_date2>>
    /\ UNCHANGED scanVars

NextDates ==
    \/ ReadTodayDate
    \/ ComputeOneWeekDate
    \/ ComputeOneWeekDate2
    \/ ComputeOneYearDate
    \/ ComputeOneYearDate2
    \/ MidnightPasses

SpecDates == InitDates /\ [][NextDates]_vars

(***************************************************************************)
(* Vocabulary of the properties.                                           *)
(***************************************************************************)
EventIdx == 1..Len(events)

IsRequest(k, n, which) ==
    /\ events[k].type = "request"
    /\ events[k].iter = n
    /\ events[k].which = which

IsPrint(k, n) == events[k].type = "print" /\ events[k].iter = n

IsAppend(k, n) == events[k].type = "append" /\ events[k].iter = n

\* The request returned a success response with a usable chain.
Succeeded(k) ==
    /\ events[k].outcome.kind = "http"
    /\ events[k].outcome.status_code = 200
    /\ events[k].outcome.wellformed

HasRow(n) == \E k \in EventIdx : IsAppend(k, n)

\* The for loop has run to its end.
LoopFinished == (pc = "for" /\ i > Len(tickers)) \/ pc \in {"sorted", "done"}

Positive(price) == price # None /\ price[1] > 0

\* u is the uppercase form of the string s.
IsUpperOf(u, s) ==
    /\ Len(u) = Len(s)
    /\ \A k \in 1..Len(s) :
         /\ ~(u[k] >= 97 /\ u[k] <= 122)
         /\ u[k] = (IF s[k] >= 97 /\ s[k] <= 122 THEN s[k] - 32 ELSE s[k])

RECURSIVE Concat(_)
Concat(seqs) == IF seqs = <<>> THEN <<>> ELSE Head(seqs) \o Concat(Tail(seqs))

\* All records of a chain: expirations, then strikes, then records, in order.
AllRecords(chain) == Concat([e \in 1..Len(chain) |-> Concat(chain[e])])

\* The "last" of the first record that has the field, None when none has it.
FirstWithLast(records) ==
    LET having == {k \in 1..Len(records) : "last" \in DOMAIN records[k]}
    IN  IF having = {} THEN None
        ELSE Some(records[CHOOSE k \in having : \A m \in having : k <= m].last)

DateLeq(a, b) ==
    \/ a[1] < b[1]
    \/ a[1] = b[1] /\ a[2] < b[2]
    \/ a[1] = b[1] /\ a[2] = b[2] /\ a[3] <= b[3]

\* The day whose date string is d.
Ordinal(d) == CHOOSE n \in 0..(MaxStartDay + MaxMidnights + 1) : Strftime(n) = d

(***************************************************************************)
(* C1.  Failure isolation: whatever the outcome of a ticker's short-term   *)
(* or long-term fetch (exception of the transport, non-success response,   *)
(* body without the expected structure, no price), the loop never ends     *)
(* abnormally.  Fails: requests.get and the traversal are not guarded.     *)
(***************************************************************************)
C1_FailureIsolation == pc # "crashed"

(***************************************************************************)
(* C2.  Both extraction loops return the "last" of the first record, in    *)
(* expiration, strike, record order, that has the field, and None exactly  *)
(* when no record has it.  Fails: the break of line 96 ends only the loop  *)
(* over one strike's records, so a later strike of the same expiration     *)
(* overwrites the price.                                                   *)
(***************************************************************************)
C2_FirstRecordWithLast ==
    /\ pc = "week_extracted"
         => week_last_price = FirstWithLast(AllRecords(response_data))
    /\ pc = "year_extracted"
         => year_last_price = FirstWithLast(AllRecords(response_data))

(***************************************************************************)
(* C3.  When the loop has finished, ticker n has a row if and only if both *)
(* of its fetches succeeded and both extracted prices are present and      *)
(* strictly positive, and every row's ratio is far / near.  Fails: line    *)
(* 121 tests truthiness, which a negative price passes.                    *)
(***************************************************************************)
C3_RowIffBothPositive ==
    LoopFinished =>
        /\ \A n \in 1..Len(tickers) :
             HasRow(n) <=>
                \E s, l \in EventIdx :
                    /\ IsRequest(s, n, "short") /\ Succeeded(s)
                    /\ IsRequest(l, n, "long") /\ Succeeded(l)
                    /\ Positive(ScanExpDates(None, events[s].outcome.callExpDateMap))
                    /\ Positive(ScanExpDates(None, events[l].outcome.callExpDateMap))
        /\ \A k \in 1..Len(results_df) :
             /\ results_df[k].Week_Last_Price > 0
             /\ results_df[k].Spread_Ratio.n * results_df[k].Week_Last_Price
                    = results_df[k].Year_Last_Price * results_df[k].Spread_Ratio.d

C5_StableRanking ==
    pc \in {"sorted", "done"} =>
        \A k, m \in 1..Len(sorted_results_df) :
            (k < m /\ sorted_results_df[k].Spread_Ratio = sorted_results_df[m].Spread_Ratio)
                => sorted_results_df[k].Index < sorted_results_df[m].Index

(***************************************************************************)
(* C6.  An entry that is not a string causes no request, no row and no     *)
(* error, and passing over it changes nothing but the loop position, so    *)
(* the later entries are processed as if it were absent; every row and     *)
(* every request carries the uppercase form of its ticker.                 *)
(***************************************************************************)
C6_NonStringUntouched ==
    /\ \A k \in EventIdx :
         /\ tickers[events[k].iter].isStr
         /\ events[k].type = "request"
              => IsUpperOf(events[k].ticker, tickers[events[k].iter].chars)
         /\ events[k].type = "append"
              => IsUpperOf(events[k].row.Ticker, tickers[events[k].iter].chars)
    /\ pc = "crashed" => tickers[i].isStr
    /\ \A k \in 1..Len(results_df) :
         \E n \in 1..Len(tickers) :
            tickers[n].isStr /\ IsUpperOf(results_df[k].Ticker, tickers[n].chars)

C6_SkipStep ==
    (pc = "for" /\ i <= Len(tickers) /\ ~tickers[i].isStr)
        => /\ i' = i + 1
           /\ UNCHANGED <<pc, tickers, response_data, week_last_price, year_last_price,
                          results_df, sorted_results_df, csv_file, events>>

C6_NonStringSkipped == []C6_NonStringUntouched /\ [][C6_SkipStep]_vars

\* A non-string entry was passed over and the lowercase entry after it got a row.
C6_Witness ==
    /\ Len(tickers) = 2
    /\ ~tickers[1].isStr
    /\ tickers[2].chars = <<97>>
    /\ Len(results_df) = 1
    /\ results_df[1].Ticker = <<65>>
    /\ HasRow(2)

(***************************************************************************)
(* C7.  Every entry that ends without a row has a printed report naming    *)
(* the ticker before the next entry is processed.  Fails: line 72 passes   *)
(* over a non-string entry without printing anything.                      *)
(***************************************************************************)
C7_EverySkipReported ==
    pc \in {"for", "long", "ratio", "sorted", "done"} =>
        \A n \in 1..(i - 1) :
            \/ HasRow(n)
            \/ \E k \in EventIdx :
                 IsPrint(k, n) /\ IsUpperOf(events[k].ticker, tickers[n].chars)

(***************************************************************************)
(* C8.  With today the date read on line 30, the near window is            *)
(* [today+6d, today+11d] and the far window [today+330d, today+600d], each *)
(* with start <= end, and the near end precedes the far start, also when   *)
(* the clock advances between the reads.  Fails: each bound is computed    *)
(* from a fresh datetime.today(), so a midnight between two reads shifts   *)
(* the later bounds by a day.                                              *)
(***************************************************************************)
C8_WindowsFromOneToday ==
    pc = "dates_done" =>
        LET t == Ordinal(today_date)
        IN  /\ one_week_date = Strftime(t + 6)
            /\ one_week_date2 = Strftime(t + 11)
            /\ one_year_date = Strftime(t + 330)
            /\ one_year_date2 = Strftime(t + 600)
            /\ DateLeq(one_week_date, one_week_date2)
            /\ DateLeq(one_year_date, one_year_date2)
            /\ DateLeq(one_week_date2, one_year_date)
            /\ one_week_date2 # one_year_date

(***************************************************************************)
(* C9.  Fetch ordering: requests follow the order of the ticker list; a    *)
(* ticker's long-term request comes after its short-term request and only  *)
(* when that one returned success; a ticker gets at most one request of    *)
(* each kind; and no request of a later ticker is issued before the        *)
(* earlier ticker's outcome (a row or a printed skip) is there.            *)
(***************************************************************************)
C9_FetchOrdering ==
    /\ \A k \in 1..(Len(events) - 1) : events[k].iter <= events[k + 1].iter
    /\ \A m \in EventIdx :
         events[m].type = "request" =>
            /\ events[m].iter <= i
            /\ \A k \in 1..(m - 1) :
                 events[k].type = "request" =>
                    /\ events[k].iter = events[m].iter
                         => events[k].which # events[m].which
                    /\ events[k].iter < events[m].iter
                         => \E d \in (k + 1)..(m - 1) :
                                \/ IsPrint(d, events[k].iter)
                                \/ IsAppend(d, events[k].iter)
            /\ events[m].which = "long"
                 => \E k \in 1..(m - 1) :
                        /\ IsRequest(k, events[m].iter, "short")
                        /\ events[k].outcome.kind = "http"
                        /\ events[k].outcome.status_code = 200

\* The first ticker's short-term request failed, and the second ticker got
\* both of its requests.
C9_Witness ==
    \E k, m, l \in EventIdx :
        /\ IsRequest(k, 1, "short") /\ events[k].outcome.status_code = 404
        /\ IsRequest(m, 2, "short")
        /\ IsRequest(l, 2, "long")

(***************************************************************************)
(* C10.  No carry-over: the prices held while a ticker's ratio is decided, *)
(* and the prices of every row, are those extracted from that same         *)
(* ticker's own short-term and long-term responses.                        *)
(***************************************************************************)
C10_NoCarryOver ==
    /\ \A a \in EventIdx :
         events[a].type = "append" =>
            \E s, l \in 1..(a - 1) :
                /\ s < l
                /\ IsRequest(s, events[a].iter, "short") /\ Succeeded(s)
                /\ IsRequest(l, events[a].iter, "long") /\ Succeeded(l)
                /\ Some(events[a].row.Week_Last_Price)
                       = ScanExpDates(None, events[s].outcome.callExpDateMap)
                /\ Some(events[a].row.Year_Last_Price)
                       = ScanExpDates(None, events[l].outcome.callExpDateMap)
    /\ pc \in {"long", "ratio"} =>
         \E s \in EventIdx :
            /\ IsRequest(s, i, "short") /\ Succeeded(s)
            /\ week_last_price = ScanExpDates(None, events[s].outcome.callExpDateMap)
    /\ pc = "ratio" =>
         \E l \in EventIdx :
            /\ IsRequest(l, i, "long") /\ Succeeded(l)
            /\ year_last_price = ScanExpDates(None, events[l].outcome.callExpDateMap)

\* The first ticker got a row, and the second ticker's short-term chain
\* carries no price while its long-term chain does.
C10_Witness ==
    /\ pc = "ratio"
    /\ i = 2
    /\ HasRow(1)
    /\ week_last_price = None
    /\ year_last_price # None

=============================================================================
